---- MODULE Spec2Model ----
(***************************************************************************)
(* Auction back end: bid admission (BidUseCase.CreateBid), the batch       *)
(* worker (BidUseCase.triggerCreateRoutine), the bid write path            *)
(* (BidRepository.CreateBid), the winner lookup and the auction closer     *)
(* (AuctionRepository.closeExpiredAuctions).                               *)
(*                                                                         *)
(* Time is counted in ticks; TicksPerSec ticks make one second.  The       *)
(* auction entity keeps instants (ticks); the store keeps epoch seconds.   *)
(***************************************************************************)
EXTENDS Integers, Sequences, FiniteSets, Bags

\* ---------------------------------------------------------------- bounds
MaxTime == 3
MaxCreateTime == 1
MaxBids == 2
MaxPipeBids == 3
MaxAmount == 2
MaxBatchSize == 2
TicksPerSec == 2
AuctionInterval == 2

\* ------------------------------------------------------------ finite sets
Procs == {"p1", "p2"}
AuctionOrder == <<"a1", "a2">>
AuctionIds == {AuctionOrder[i] : i \in 1..Len(AuctionOrder)}
Users == {"u1", "u2"}
\* the bodies POSTed to /bid: for the first auction every well-formed bid of
\* a known user, one with amount 0 and one of an unknown user; for the
\* others one well-formed bid
BidInputs ==
    [user : Users, auction : {AuctionOrder[1]}, amount : 1..MaxAmount]
    \cup [user : {"u1"}, auction : {AuctionOrder[1]}, amount : {0}]
    \cup [user : {"ghost"}, auction : {AuctionOrder[1]}, amount : {1}]
    \cup [user : {"u1"}, auction : AuctionIds \ {AuctionOrder[1]}, amount : {1}]

Active == "Active"
Completed == "Completed"

NoAuction == [status |-> "none"]
NoBid == [user |-> "none", auction |-> "none", amount |-> 0]
NoEntry == "none"

\* error values (internal_error kinds and messages); Ok is the nil return
Ok == [kind |-> "ok", msg |-> ""]
ErrAmount == [kind |-> "BadRequest", msg |-> "Amount is not a valid value"]
ErrAuctionNotFound == [kind |-> "NotFound", msg |-> "Auction not found"]
ErrAuctionInactive == [kind |-> "BadRequest", msg |-> "Auction is no longer active"]
ErrUserNotFound == [kind |-> "NotFound", msg |-> "User not found"]
ErrSelfOutbid == [kind |-> "BadRequest", msg |-> "You are already the highest bidder"]
ErrNotHigher == [kind |-> "BadRequest", msg |-> "Bid must be higher than current highest bid"]

VARIABLES
    now,                \* the clock, in ticks
    auctions,           \* store collection "auctions": id -> document
    bids,               \* store collection "bids", in insertion order
    allowSelfOutbid,    \* ALLOW_SELF_OUTBID
    maxBatchSize,       \* BidUseCase.maxBatchSize (MAX_BATCH_SIZE)
    call,               \* each CreateBid caller's position and locals
    pendingHighestBid,  \* BidUseCase.pendingHighestBid (C7)
    bidChannel,         \* BidUseCase.bidChannel
    bidBatch,           \* BidUseCase.bidBatch
    batchIsNil,         \* bidBatch is the nil slice
    closes,             \* how many times bidChannel has been closed
    worker,             \* the batch worker's position
    auctionStatusMap,   \* BidRepository.auctionStatusMap (C5)
    auctionEndTimeMap,  \* BidRepository.auctionEndTimeMap (C5)
    closer,             \* the auction closer's task: Running or Stopped
    tickerC,            \* the closer's ticker has a tick waiting
    ctxDone,            \* the closer's context is cancelled
    bidsLeft,           \* bid entities that may still be created
    sent,               \* history: every bid sent on bidChannel, in send order
    overlapped,         \* history: auctions on which two calls ran at once
    dropped,            \* history: the bids the write path refused, in order
    cached,             \* history: the bag of bids written to pendingHighestBid
    entity,             \* the last auction_entity.CreateAuction call
    failed,             \* history: the bids whose store insert failed, in order
    closerErr,          \* history: the closer's last sweep logged an error
    timerArmed          \* BidUseCase.timer is running (it can still fire)

vars == <<now, auctions, bids, allowSelfOutbid, maxBatchSize, call,
          pendingHighestBid, bidChannel, bidBatch, batchIsNil, closes, worker,
          auctionStatusMap, auctionEndTimeMap, closer, tickerC, ctxDone,
          bidsLeft, sent, overlapped, dropped, cached, entity, failed,
          closerErr, timerArmed>>

\* ---------------------------------------------------------------- helpers
Unix(t) == t \div TicksPerSec
FromUnix(s) == s * TicksPerSec

IdleCall == [pc |-> "idle", user |-> "none", auction |-> "none", amount |-> 0,
             cur |-> NoBid, effAmount |-> 0, effUser |-> "none",
             late |-> FALSE, findErr |-> FALSE, ret |-> Ok]
\* cur: the persisted highest bid read; effAmount, effUser: the effective
\* highest bid a rejection was decided against; late: history, the call
\* began past the stored deadline of its auction; findErr: history, the
\* fetch of the persisted highest bid failed; ret: the answer

InProgress(p) == call[p].pc \in {"getPending", "update", "send"}

\* the clock is past the stored deadline of auction a (now.After(end time))
PastDeadline(a) ==
    auctions[a] # NoAuction /\ now > FromUnix(auctions[a].expires_at)

\* A caller that has its answer returns before anything else happens: the
\* return touches nothing shared, so no interleaving is lost.
Returning == \E p \in Procs : call[p].pc = "done"

\* indices of the bids of auction a in a sequence of bids
IdxOf(s, a) == {i \in 1..Len(s) : s[i].auction = a}

\* ------------------------------------------------------ auction entity (C1)
\* auction_entity.CreateAuction: Status Active, ExpiresAt = now + interval;
\* AuctionRepository.CreateAuction stores both instants as epoch seconds.
NewAuction(t) ==
    [status |-> Active,
     CreatedAt |-> t,
     ExpiresAt |-> t + AuctionInterval,
     created_at |-> Unix(t),
     expires_at |-> Unix(t + AuctionInterval)]

\* ProductCondition: New, Used, Refurbished (iota + 1).
New == 1
Used == 2
Refurbished == 3

ErrInvalidAuction == [kind |-> "BadRequest", msg |-> "invalid auction object"]

\* the nil *Auction
NilAuction == [Id |-> ""]

\* The arguments of auction_entity.CreateAuction: the texts by their length
\* (Validate reads nothing else of them), the condition as the integer it is.
NameLens == {1, 2}
CategoryLens == {2, 3}
DescriptionLens == {10, 11}
Conditions == 0..4

\* AUCTION_INTERVAL: unset, set to a text that is no duration, or set to a
\* duration d (ticks), which may be zero or negative.
IntervalEnvs ==
    {[set |-> FALSE, parses |-> FALSE, d |-> 0],
     [set |-> TRUE, parses |-> FALSE, d |-> 0]}
    \cup [set : {TRUE}, parses : {TRUE}, d : -1..AuctionInterval]

\* time.ParseDuration of os.Getenv("AUCTION_INTERVAL"): the empty text of an
\* unset variable is no duration either.
ParseDuration(env) ==
    IF env.set /\ env.parses THEN [err |-> FALSE, d |-> env.d]
    ELSE [err |-> TRUE, d |-> 0]

\* the default of getAuctionInterval: 5 * time.Minute, in ticks
DefaultAuctionInterval == 5 * 60 * TicksPerSec

\* mutant: a text that does not parse gives the zero duration
getAuctionIntervalNoDefault(env) == ParseDuration(env).d

\* getAuctionInterval: the parsed duration, five minutes when parsing fails.
getAuctionInterval(env) ==
    IF ParseDuration(env).err THEN DefaultAuctionInterval
    ELSE ParseDuration(env).d

\* Auction.Validate, lines 38-42: in Go && binds tighter than ||, so the
\* condition is read  name || category || (description && condition).
Validate(au) ==
    IF \/ au.ProductName <= 1
       \/ au.Category <= 2
       \/ /\ au.Description <= 10
          /\ (au.Condition # New /\ au.Condition # Refurbished /\ au.Condition # Used)
    THEN ErrInvalidAuction
    ELSE Ok

\* auction_entity.CreateAuction: the auction is built (fresh id, Active,
\* CreatedAt = now, ExpiresAt = now + interval), then validated; an invalid
\* one is answered with nil and the error.
auction_entity_CreateAuction(id, nameLen, catLen, descLen, cond, env, t) ==
    LET auction == [Id |-> id,
                    ProductName |-> nameLen,
                    Category |-> catLen,
                    Description |-> descLen,
                    Condition |-> cond,
                    Status |-> Active,
                    CreatedAt |-> t,
                    ExpiresAt |-> t + getAuctionInterval(env)]
    IN IF Validate(auction) # Ok
       THEN [auction |-> NilAuction, err |-> Validate(auction)]
       ELSE [auction |-> auction, err |-> Ok]

\* mutant: the deadline instant itself counts as expired
IsExpiredInclusive(au, t) == t >= au.ExpiresAt

\* Auction.IsExpired: time.Now().After(ExpiresAt).
IsExpired(au, t) == t > au.ExpiresAt

\* no call of the entity has been made
NoCall == [pc |-> "none"]

\* The call of auction_entity.CreateAuction that is looked at, made at any
\* instant with arguments and environment of any kind; the record keeps what
\* went in and what came back.
EntityCreate ==
    /\ entity = NoCall
    /\ \E id \in AuctionIds, nameLen \in NameLens, catLen \in CategoryLens,
          descLen \in DescriptionLens, cond \in Conditions,
          env \in IntervalEnvs :
         LET r == auction_entity_CreateAuction(id, nameLen, catLen, descLen,
                                               cond, env, now)
         IN entity' = [pc |-> "created", nameLen |-> nameLen, catLen |-> catLen,
                       descLen |-> descLen, cond |-> cond, env |-> env,
                       auction |-> r.auction, err |-> r.err,
                       expired |-> FALSE, at |-> now]
    /\ UNCHANGED <<timerArmed, failed, closerErr,
                   now, auctions, bids, allowSelfOutbid, maxBatchSize, call,
                   pendingHighestBid, bidChannel, bidBatch, batchIsNil,
                   closes, worker, auctionStatusMap, auctionEndTimeMap,
                   closer, tickerC, ctxDone, bidsLeft, sent, overlapped,
                   dropped, cached>>

\* A call of IsExpired on the auction that call returned.
EntityIsExpired ==
    /\ entity.pc \in {"created", "checked"}
    /\ entity.err = Ok
    /\ entity' = [entity EXCEPT !.pc = "checked",
                                !.expired = IsExpired(entity.auction, now),
                                !.at = now]
    /\ UNCHANGED <<timerArmed, failed, closerErr,
                   now, auctions, bids, allowSelfOutbid, maxBatchSize, call,
                   pendingHighestBid, bidChannel, bidBatch, batchIsNil,
                   closes, worker, auctionStatusMap, auctionEndTimeMap,
                   closer, tickerC, ctxDone, bidsLeft, sent, overlapped,
                   dropped, cached>>

\* ids are fresh: the next auction takes the first id not yet in the store
Unused == {i \in 1..Len(AuctionOrder) : auctions[AuctionOrder[i]] = NoAuction}
NextAuctionId ==
    IF Unused = {} THEN "none"
    ELSE AuctionOrder[CHOOSE i \in Unused : \A j \in Unused : i <= j]

CreateAuction ==
    /\ ~Returning
    /\ NextAuctionId # "none"
    /\ now <= MaxCreateTime
    /\ auctions' = [auctions EXCEPT ![NextAuctionId] = NewAuction(now)]
    /\ UNCHANGED <<timerArmed, failed, closerErr, entity, cached,
                   now, bids, allowSelfOutbid, call, pendingHighestBid,
                   bidChannel, bidBatch, worker, auctionStatusMap,
                   auctionEndTimeMap, bidsLeft, sent, overlapped, dropped,
                   maxBatchSize, batchIsNil, closes, closer, tickerC,
                   ctxDone>>

\* ------------------------------------------------------------------ clock
Tick ==
    /\ ~Returning
    /\ now < MaxTime
    /\ now' = now + 1
    /\ UNCHANGED <<timerArmed, failed, closerErr, entity, cached,
                   auctions, bids, allowSelfOutbid, call, pendingHighestBid,
                   bidChannel, bidBatch, worker, auctionStatusMap,
                   auctionEndTimeMap, bidsLeft, sent, overlapped, dropped,
                   maxBatchSize, batchIsNil, closes, closer, tickerC,
                   ctxDone>>

\* ------------------------------------------------------- auction closer (C8)
\* closeExpiredAuctions: UpdateMany {status: Active, expires_at: {$lte: now}}
\* -> {$set: {status: Completed}}, now in epoch seconds.
\* mutant: the deadline is left out of the filter
SweepFilterNoDeadline(doc, nowUnix) ==
    /\ doc # NoAuction
    /\ doc.status = Active

\* mutant: the sweep takes only deadlines strictly before now
SweepFilterStrict(doc, nowUnix) ==
    /\ doc # NoAuction
    /\ doc.status = Active
    /\ doc.expires_at < nowUnix

\* closeExpiredAuctions, lines 38-41: the filter of the bulk update.
SweepFilter(doc, nowUnix) ==
    /\ doc # NoAuction
    /\ doc.status = Active
    /\ doc.expires_at <= nowUnix

\* mutant: the update flips the status of every auction past its deadline
SweptFlipping(nowUnix) ==
    [a \in AuctionIds |->
        IF auctions[a] # NoAuction /\ auctions[a].expires_at <= nowUnix
        THEN [auctions[a] EXCEPT
                 !.status = IF @ = Active THEN Completed ELSE Active]
        ELSE auctions[a]]

\* closeExpiredAuctions, lines 38-47: the collection after UpdateMany.
Swept(nowUnix) ==
    [a \in AuctionIds |->
        IF SweepFilter(auctions[a], nowUnix)
        THEN [auctions[a] EXCEPT !.status = Completed]
        ELSE auctions[a]]

\* One tick of the closer as main.go starts it, with a context that is never
\* cancelled: the ticker fires and the sweep runs.
closeExpiredAuctions ==
    /\ ~Returning
    /\ closer = "Running"
    /\ auctions' = Swept(Unix(now))
    /\ UNCHANGED <<timerArmed, failed, closerErr, entity, cached,
                   now, bids, allowSelfOutbid, call, pendingHighestBid,
                   bidChannel, bidBatch, worker, auctionStatusMap,
                   auctionEndTimeMap, bidsLeft, sent, overlapped, dropped,
                   maxBatchSize, batchIsNil, closes, closer, tickerC,
                   ctxDone>>

\* StartAuctionCloserRoutine with a context that may be cancelled.
\* The ticker puts a tick in its channel (one is buffered; a tick that finds
\* the channel full is dropped).
TickerFire ==
    /\ closer = "Running"
    /\ ~tickerC
    /\ tickerC' = TRUE
    /\ UNCHANGED <<timerArmed, failed, closerErr, entity, cached,
                   now, auctions, bids, allowSelfOutbid, maxBatchSize, call,
                   pendingHighestBid, bidChannel, bidBatch, batchIsNil,
                   closes, worker, auctionStatusMap, auctionEndTimeMap,
                   closer, ctxDone, bidsLeft, sent, overlapped, dropped>>

\* StartAuctionCloserRoutine, lines 28-29: the select takes the tick and the
\* sweep runs.  The select chooses among the ready cases at random, so the
\* tick may be taken although the context is cancelled; UpdateMany then
\* gets the cancelled context and fails (logged, line 49), no auction is
\* changed.
CloserTick ==
    /\ closer = "Running"
    /\ tickerC
    /\ tickerC' = FALSE
    /\ auctions' = IF ctxDone THEN auctions ELSE Swept(Unix(now))
    /\ closerErr' = ctxDone
    /\ UNCHANGED <<timerArmed, failed, entity, cached,
                   now, bids, allowSelfOutbid, maxBatchSize, call,
                   pendingHighestBid, bidChannel, bidBatch, batchIsNil,
                   closes, worker, auctionStatusMap, auctionEndTimeMap,
                   closer, ctxDone, bidsLeft, sent, overlapped, dropped>>

\* mutant: a sweep that fails ends the task
AfterSweepErrorStops(c) == "Stopped"

\* closeExpiredAuctions, lines 48-51: the error is logged and the sweep
\* returns nothing, so the loop of StartAuctionCloserRoutine goes on as it
\* was.
AfterSweepError(c) == c

\* StartAuctionCloserRoutine, lines 28-29, with closeExpiredAuctions, lines
\* 47-51: the tick is taken and UpdateMany returns an error of the store; no
\* auction is changed.
CloserTickFails ==
    /\ closer = "Running"
    /\ tickerC
    /\ tickerC' = FALSE
    /\ closerErr' = TRUE
    /\ closer' = AfterSweepError(closer)
    /\ UNCHANGED <<timerArmed, failed, entity, cached,
                   now, auctions, bids, allowSelfOutbid, maxBatchSize, call,
                   pendingHighestBid, bidChannel, bidBatch, batchIsNil,
                   closes, worker, auctionStatusMap, auctionEndTimeMap,
                   ctxDone, bidsLeft, sent, overlapped, dropped>>

\* StartAuctionCloserRoutine, lines 24-27: the select takes ctx.Done(), the
\* ticker is stopped and the task returns.
CloserStop ==
    /\ closer = "Running"
    /\ ctxDone
    /\ closer' = "Stopped"
    /\ UNCHANGED <<timerArmed, failed, closerErr, entity, cached,
                   now, auctions, bids, allowSelfOutbid, maxBatchSize, call,
                   pendingHighestBid, bidChannel, bidBatch, batchIsNil,
                   closes, worker, auctionStatusMap, auctionEndTimeMap,
                   tickerC, ctxDone, bidsLeft, sent, overlapped, dropped>>

\* The owner of the context cancels it.
CancelCtx ==
    /\ ~ctxDone
    /\ ctxDone' = TRUE
    /\ UNCHANGED <<timerArmed, failed, closerErr, entity, cached,
                   now, auctions, bids, allowSelfOutbid, maxBatchSize, call,
                   pendingHighestBid, bidChannel, bidBatch, batchIsNil,
                   closes, worker, auctionStatusMap, auctionEndTimeMap,
                   closer, tickerC, bidsLeft, sent, overlapped, dropped>>

\* ------------------------------------------------------ winner lookup (C4)
\* BidRepository.FindWinningBidByAuctionId: FindOne with sort {amount: -1}:
\* the first bid, in store order, among those of greatest amount.
RECURSIVE BestFrom(_, _, _, _)
BestFrom(s, a, i, best) ==
    IF i > Len(s) THEN best
    ELSE IF s[i].auction = a /\ (best = NoBid \/ s[i].amount > best.amount)
         THEN BestFrom(s, a, i + 1, s[i])
         ELSE BestFrom(s, a, i + 1, best)

\* mutant: the sort is left out, the first bid of the auction is returned
FindWinningUnsorted(a) ==
    IF IdxOf(bids, a) = {} THEN NoBid
    ELSE bids[CHOOSE i \in IdxOf(bids, a) : \A j \in IdxOf(bids, a) : i <= j]

FindWinningBidByAuctionId(a) == BestFrom(bids, a, 1, NoBid)


\* --------------------------------------------------------- bid model (C2)
\* bid_entity.CreateBid: a bid needs amount > 0.
BidValidate(amt) == IF amt <= 0 THEN ErrAmount ELSE Ok

\* -------------------------------------------------- bid admission (C6, C7)
\* mutant: the status of the auction is not looked at
AuctionCheckNoStatus(a) ==
    IF auctions[a] = NoAuction THEN ErrAuctionNotFound ELSE Ok

\* mutant: an auction past its stored deadline counts as no longer active
AuctionCheckWithDeadline(a) ==
    IF auctions[a] = NoAuction THEN ErrAuctionNotFound
    ELSE IF auctions[a].status = Completed \/ PastDeadline(a)
         THEN ErrAuctionInactive
    ELSE Ok

\* CreateBid, validation 2: the auction exists and is not Completed.
AuctionCheck(a) ==
    IF auctions[a] = NoAuction THEN ErrAuctionNotFound
    ELSE IF auctions[a].status = Completed THEN ErrAuctionInactive
    ELSE Ok

\* CreateBid, validation 3: the user exists.
UserCheck(u) == IF u \notin Users THEN ErrUserNotFound ELSE Ok

\* mutant: the user is looked up before the auction
AdmissionHeadUserFirst(u, a, amt) ==
    IF BidValidate(amt) # Ok THEN BidValidate(amt)
    ELSE IF UserCheck(u) # Ok THEN UserCheck(u)
    ELSE AuctionCheck(a)

\* CreateBid, validations 1 to 3 in the order of the code.
AdmissionHead(u, a, amt) ==
    IF BidValidate(amt) # Ok THEN BidValidate(amt)
    ELSE IF AuctionCheck(a) # Ok THEN AuctionCheck(a)
    ELSE UserCheck(u)

\* getPendingHighestBid: the map entry, nil (NoBid) when absent.
getPendingHighestBid(a) == pendingHighestBid[a]

\* mutant: the pending bid also replaces a persisted one of equal amount
EffectiveHighestPendingOnTie(cur, pend) ==
    IF pend # NoBid /\ pend.amount >= cur.amount
    THEN [amount |-> pend.amount, user |-> pend.user]
    ELSE [amount |-> cur.amount, user |-> cur.user]

\* The effective highest bid: the persisted one, replaced by the pending one
\* when the pending amount is strictly greater.
EffectiveHighest(cur, pend) ==
    IF pend # NoBid /\ pend.amount > cur.amount
    THEN [amount |-> pend.amount, user |-> pend.user]
    ELSE [amount |-> cur.amount, user |-> cur.user]

\* mutant: an amount equal to the highest is let through
Validation6NonStrict(effAmount, effUser, u, amt, allow) ==
    IF effAmount > 0
    THEN IF effUser = u /\ ~allow THEN ErrSelfOutbid
         ELSE IF amt < effAmount THEN ErrNotHigher
         ELSE Ok
    ELSE Ok

\* mutant: the amount is checked before the self-outbid rule
Validation6AmountFirst(effAmount, effUser, u, amt, allow) ==
    IF effAmount > 0
    THEN IF amt <= effAmount THEN ErrNotHigher
         ELSE IF effUser = u /\ ~allow THEN ErrSelfOutbid
         ELSE Ok
    ELSE Ok

\* CreateBid, validation 6: self-outbid rule, then strictly higher amount.
Validation6(effAmount, effUser, u, amt, allow) ==
    IF effAmount > 0
    THEN IF effUser = u /\ ~allow THEN ErrSelfOutbid
         ELSE IF amt <= effAmount THEN ErrNotHigher
         ELSE Ok
    ELSE Ok

\* CreateBid, line 180: the persisted highest bid; the error of the fetch is
\* discarded (currentHighestBid, _ := ...), a failed fetch leaves nil.
CurrentHighestBid(a, fails) ==
    IF fails THEN NoBid ELSE FindWinningBidByAuctionId(a)

\* CreateBid, lines 159-180: entity validation, then the store reads: the
\* auction, the user and the persisted highest bid, whose fetch may fail
\* (the failures taken are those that hide a persisted bid).
\* The reads are of different collections (auctions, users, bids) and no
\* step writes two of them, so taking them in one step loses no
\* interleaving.  Producers have stopped once the channel is closed.
Begin(p) ==
    /\ ~Returning
    /\ call[p].pc = "idle"
    /\ closes = 0
    /\ bidsLeft > 0
    /\ \E in \in BidInputs, fails \in BOOLEAN :
         LET u == in.user
             a == in.auction
             amt == in.amount
             r == AdmissionHead(u, a, amt)
         IN
         /\ fails => r = Ok /\ FindWinningBidByAuctionId(a) # NoBid
         /\ bidsLeft' = IF r = Ok THEN bidsLeft - 1 ELSE bidsLeft
         /\ call' = [call EXCEPT ![p] =
                [IdleCall EXCEPT !.pc = IF r = Ok THEN "getPending" ELSE "done",
                                 !.user = u, !.auction = a, !.amount = amt,
                                 !.cur = IF r = Ok THEN CurrentHighestBid(a, fails)
                                         ELSE NoBid,
                                 !.late = PastDeadline(a),
                                 !.findErr = fails,
                                 !.ret = r]]
         /\ overlapped' = [overlapped EXCEPT ![a] =
                @ \/ \E q \in Procs \ {p} : InProgress(q) /\ call[q].auction = a]
    /\ UNCHANGED <<timerArmed, failed, closerErr, entity, cached,
                   now, auctions, bids, allowSelfOutbid, pendingHighestBid,
                   bidChannel, bidBatch, worker, auctionStatusMap,
                   auctionEndTimeMap, sent, dropped, maxBatchSize,
                   batchIsNil, closes, closer, tickerC, ctxDone>>

\* mutant: the pending cache is written before validation 6 is decided
GetPendingWritesFirst(p) ==
    /\ ~Returning
    /\ call[p].pc = "getPending"
    /\ LET eff == EffectiveHighest(call[p].cur, pendingHighestBid[call[p].auction])
           r == Validation6(eff.amount, eff.user, call[p].user, call[p].amount,
                            allowSelfOutbid)
       IN call' = [call EXCEPT ![p].pc = IF r = Ok THEN "update" ELSE "done",
                               ![p].cur = NoBid,
                               ![p].effAmount = IF r = Ok THEN 0 ELSE eff.amount,
                               ![p].effUser = IF r = Ok THEN "none" ELSE eff.user,
                               ![p].ret = r]
    /\ pendingHighestBid' =
          [pendingHighestBid EXCEPT ![call[p].auction] =
              [user |-> call[p].user, auction |-> call[p].auction,
               amount |-> call[p].amount]]
    /\ UNCHANGED <<timerArmed, failed, closerErr, entity, cached,
                   now, auctions, bids, allowSelfOutbid, maxBatchSize,
                   bidChannel, bidBatch, batchIsNil, closes, worker,
                   auctionStatusMap, auctionEndTimeMap, closer, tickerC,
                   ctxDone, bidsLeft, sent, overlapped, dropped>>

\* CreateBid, lines 183-212: the pending highest bid, the effective highest
\* bid and validation 6.
GetPending(p) ==
    /\ ~Returning
    /\ call[p].pc = "getPending"
    /\ LET eff == EffectiveHighest(call[p].cur, getPendingHighestBid(call[p].auction))
           r == Validation6(eff.amount, eff.user, call[p].user, call[p].amount,
                            allowSelfOutbid)
       IN call' = [call EXCEPT ![p].pc = IF r = Ok THEN "update" ELSE "done",
                               ![p].cur = NoBid,
                               ![p].effAmount = IF r = Ok THEN 0 ELSE eff.amount,
                               ![p].effUser = IF r = Ok THEN "none" ELSE eff.user,
                               ![p].ret = r]
    /\ UNCHANGED <<timerArmed, failed, closerErr, entity, cached,
                   now, auctions, bids, allowSelfOutbid, pendingHighestBid,
                   bidChannel, bidBatch, worker, auctionStatusMap,
                   auctionEndTimeMap, bidsLeft, sent, overlapped, dropped,
                   maxBatchSize, batchIsNil, closes, closer, tickerC,
                   ctxDone>>

BidOf(c) == [user |-> c.user, auction |-> c.auction, amount |-> c.amount]

\* updatePendingHighestBid: the entry of the bid's auction is overwritten.
updatePendingHighestBid(bid) ==
    pendingHighestBid' = [pendingHighestBid EXCEPT ![bid.auction] = bid]

\* mutant: the call goes on to the send without writing the cache
UpdatePendingSkips(p) ==
    /\ ~Returning
    /\ call[p].pc = "update"
    /\ call' = [call EXCEPT ![p].pc = "send"]
    /\ UNCHANGED <<timerArmed, failed, closerErr, entity, cached, pendingHighestBid,
                   now, auctions, bids, allowSelfOutbid, bidChannel,
                   bidBatch, worker, auctionStatusMap, auctionEndTimeMap,
                   bidsLeft, sent, overlapped, dropped, maxBatchSize,
                   batchIsNil, closes, closer, tickerC, ctxDone>>

\* CreateBid, line 215.
UpdatePending(p) ==
    /\ ~Returning
    /\ call[p].pc = "update"
    /\ updatePendingHighestBid(BidOf(call[p]))
    /\ cached' = cached (+) SetToBag({BidOf(call[p])})
    /\ call' = [call EXCEPT ![p].pc = "send"]
    /\ UNCHANGED <<timerArmed, failed, closerErr, entity,
                   now, auctions, bids, allowSelfOutbid, bidChannel,
                   bidBatch, worker, auctionStatusMap, auctionEndTimeMap,
                   bidsLeft, sent, overlapped, dropped, maxBatchSize,
                   batchIsNil, closes, closer, tickerC, ctxDone>>

\* mutant: the channel takes any number of bids
ChannelUnbounded == TRUE

\* NewBidUseCase, line 63: the channel buffers maxBatchSize bids.
ChannelHasRoom == Len(bidChannel) < maxBatchSize

\* CreateBid, lines 217-219: the send blocks while the channel is full; the
\* call returns nil right after it.
Send(p) ==
    /\ ~Returning
    /\ call[p].pc = "send"
    /\ ChannelHasRoom
    /\ bidChannel' = Append(bidChannel, BidOf(call[p]))
    /\ sent' = Append(sent, BidOf(call[p]))
    /\ call' = [call EXCEPT ![p].pc = "done", ![p].ret = Ok]
    /\ UNCHANGED <<timerArmed, failed, closerErr, entity, cached,
                   now, auctions, bids, allowSelfOutbid, pendingHighestBid,
                   bidBatch, worker, auctionStatusMap, auctionEndTimeMap,
                   bidsLeft, overlapped, dropped, maxBatchSize, batchIsNil,
                   closes, closer, tickerC, ctxDone>>

\* The caller has its answer; its goroutine ends.
Return(p) ==
    /\ call[p].pc = "done"
    /\ call' = [call EXCEPT ![p] = IdleCall]
    /\ UNCHANGED <<timerArmed, failed, closerErr, entity, cached,
                   now, auctions, bids, allowSelfOutbid, pendingHighestBid,
                   bidChannel, bidBatch, worker, auctionStatusMap,
                   auctionEndTimeMap, bidsLeft, sent, overlapped, dropped,
                   maxBatchSize, batchIsNil, closes, closer, tickerC,
                   ctxDone>>

\* ------------------------------------------------------ batch worker (C6)
WorkerSelect == [pc |-> "select", left |-> {}]

\* mutant: the size trigger waits for one bid more
BatchFullLate(batch) == Len(batch) > maxBatchSize

\* triggerCreateRoutine, line 108: the size trigger.
BatchFull(batch) == Len(batch) >= maxBatchSize

\* triggerCreateRoutine, lines 93-116: a bid is received (also from a closed
\* channel, as long as it holds bids) and appended; a full batch starts the
\* store write.
Receive ==
    /\ ~Returning
    /\ worker.pc = "select"
    /\ Len(bidChannel) > 0
    /\ bidChannel' = Tail(bidChannel)
    /\ bidBatch' = Append(bidBatch, Head(bidChannel))
    /\ batchIsNil' = FALSE
    /\ worker' = IF BatchFull(bidBatch')
                 THEN [pc |-> "flush", left |-> 1..Len(bidBatch')]
                 ELSE worker
    /\ UNCHANGED <<timerArmed, failed, closerErr, entity, cached,
                   now, auctions, bids, allowSelfOutbid, call,
                   pendingHighestBid, auctionStatusMap, auctionEndTimeMap,
                   bidsLeft, sent, overlapped, dropped, maxBatchSize,
                   closes, closer, tickerC, ctxDone>>

\* mutant: the timer case never writes the batch
TimerFlushesNever(batch) == FALSE

\* mutant: the timer writes whatever the batch holds
TimerFlushesAlways(batch) == TRUE

\* triggerCreateRoutine, line 120: the timer writes a non-empty batch only.
TimerFlushes(batch) == Len(batch) > 0

\* mutant: the timer is left as it is
ResetForgotten(armed) == armed

\* timer.Reset(batchInsertInterval): the timer runs again.
Reset(armed) == TRUE

\* mutant: the worker returns when the timer finds nothing to write
AfterIdleTimerReturns(w) == [pc |-> "exited", left |-> {}]

\* triggerCreateRoutine, lines 118-128: after the timer case the for loop
\* goes round, the worker is at its select again.
AfterIdleTimer(w) == w

\* triggerCreateRoutine, lines 118-127: the timer (one shot: it fires once
\* per NewTimer or Reset, after batchInsertInterval, which may be any moment
\* of the model) fires and the select takes it; a non-empty batch starts
\* the store write, an empty one is set to nil and the timer is reset.
TimerFire ==
    /\ ~Returning
    /\ worker.pc = "select"
    /\ timerArmed
    /\ IF TimerFlushes(bidBatch)
       THEN /\ worker' = [pc |-> "flush", left |-> 1..Len(bidBatch)]
            /\ batchIsNil' = batchIsNil
            /\ timerArmed' = FALSE
       ELSE /\ worker' = AfterIdleTimer(worker)
            /\ batchIsNil' = TRUE
            /\ timerArmed' = Reset(FALSE)
    /\ UNCHANGED <<failed, closerErr, entity, cached,
                   now, auctions, bids, allowSelfOutbid, call,
                   pendingHighestBid, bidChannel, bidBatch, auctionStatusMap,
                   auctionEndTimeMap, bidsLeft, sent, overlapped, dropped,
                   maxBatchSize, closes, closer, tickerC, ctxDone>>

\* -------------------------------------------- bid write path (C4, C5, 4.7)
\* mutant: only the cached status is looked at, not the clock
WriteRefusedStatusOnly(status, endTime, t) == status = Completed

\* mutant: only the clock is looked at, not the status
WriteRefusedDeadlineOnly(status, endTime, t) == t > endTime

\* The deadline check of the write path: refuse a Completed auction and any
\* instant after the cached end time.
WriteRefused(status, endTime, t) == status = Completed \/ t > endTime

\* mutant: the cache is never trusted, every bid fetches the auction anew
CacheHitNever(a) == FALSE

\* The lookup in the deadline cache: both maps hold an entry (they are
\* filled together).
CacheHit(a) == auctionStatusMap[a] # NoEntry

\* BidRepository.CreateBid, one bid of the batch (each runs in a goroutine of
\* its own, so in any order): cache lookup, on a miss fetch the auction and
\* fill the cache, then the deadline check, then InsertOne.
FlushBid(i) ==
    /\ ~Returning
    /\ worker.pc \in {"flush", "lastFlush"}
    /\ i \in worker.left
    /\ LET b == bidBatch[i]
           hit == CacheHit(b.auction)
           status == IF hit THEN auctionStatusMap[b.auction]
                     ELSE auctions[b.auction].status
           endTime == IF hit THEN auctionEndTimeMap[b.auction]
                      ELSE FromUnix(auctions[b.auction].expires_at)
       IN /\ auctionStatusMap' = [auctionStatusMap EXCEPT ![b.auction] = status]
          /\ auctionEndTimeMap' = [auctionEndTimeMap EXCEPT ![b.auction] = endTime]
          /\ IF WriteRefused(status, endTime, now)
             THEN /\ dropped' = Append(dropped, b)
                  /\ bids' = bids
             ELSE /\ bids' = Append(bids, b)
                  /\ dropped' = dropped
    /\ worker' = [worker EXCEPT !.left = @ \ {i}]
    /\ UNCHANGED <<timerArmed, failed, closerErr, entity, cached,
                   now, auctions, allowSelfOutbid, call, pendingHighestBid,
                   bidChannel, bidBatch, bidsLeft, sent, overlapped,
                   maxBatchSize, batchIsNil, closes, closer, tickerC,
                   ctxDone>>

\* BidRepository.CreateBid, one bid of the batch, with the store failing:
\* either the fetch of the auction on a cache miss fails (nothing is cached)
\* or, the deadline check passed, InsertOne fails.  The error is logged and
\* the bid is not persisted.
FlushBidFails(i) ==
    /\ ~Returning
    /\ worker.pc \in {"flush", "lastFlush"}
    /\ i \in worker.left
    /\ LET b == bidBatch[i]
           hit == CacheHit(b.auction)
           status == IF hit THEN auctionStatusMap[b.auction]
                     ELSE auctions[b.auction].status
           endTime == IF hit THEN auctionEndTimeMap[b.auction]
                      ELSE FromUnix(auctions[b.auction].expires_at)
       IN /\ \/ /\ ~hit
                /\ UNCHANGED <<auctionStatusMap, auctionEndTimeMap>>
             \/ /\ ~WriteRefused(status, endTime, now)
                /\ auctionStatusMap' = [auctionStatusMap EXCEPT ![b.auction] = status]
                /\ auctionEndTimeMap' = [auctionEndTimeMap EXCEPT ![b.auction] = endTime]
          /\ failed' = Append(failed, b)
    /\ worker' = [worker EXCEPT !.left = @ \ {i}]
    /\ UNCHANGED <<timerArmed, closerErr, entity, cached,
                   now, auctions, bids, dropped, allowSelfOutbid, call,
                   pendingHighestBid, bidChannel, bidBatch, bidsLeft, sent,
                   overlapped, maxBatchSize, batchIsNil, closes, closer,
                   tickerC, ctxDone>>

\* mutant: the pending cache is cleared after the write
\* (clearPendingBidsCache is called)
PendingAfterFlushCleared(cache, batch) == [a \in AuctionIds |-> NoBid]

\* triggerCreateRoutine, lines 108-116 and 120-127: the worker does not touch
\* the pending cache after a write; clearPendingBidsCache (lines 133-138)
\* has no caller.
PendingAfterFlush(cache, batch) == cache

\* mutant: the batch is not emptied after the write
FlushEndKeepsBatch ==
    /\ ~Returning
    /\ worker.pc = "flush"
    /\ worker.left = {}
    /\ timerArmed' = Reset(timerArmed)
    /\ worker' = WorkerSelect
    /\ UNCHANGED <<failed, closerErr, entity, cached,
                   now, auctions, bids, allowSelfOutbid, call,
                   pendingHighestBid, bidChannel, bidBatch, batchIsNil,
                   auctionStatusMap, auctionEndTimeMap, bidsLeft, sent,
                   overlapped, dropped, maxBatchSize, closes, closer,
                   tickerC, ctxDone>>

\* triggerCreateRoutine, lines 113-116 and 125-127: the store write has
\* returned (its error, if any, is logged); the batch is set to nil and the
\* timer is reset.
FlushEnd ==
    /\ ~Returning
    /\ worker.pc = "flush"
    /\ worker.left = {}
    /\ bidBatch' = <<>>
    /\ batchIsNil' = TRUE
    /\ timerArmed' = Reset(timerArmed)
    /\ pendingHighestBid' = PendingAfterFlush(pendingHighestBid, bidBatch)
    /\ worker' = WorkerSelect
    /\ UNCHANGED <<failed, closerErr, entity, cached,
                   now, auctions, bids, allowSelfOutbid, call,
                   bidChannel, auctionStatusMap,
                   auctionEndTimeMap, bidsLeft, sent, overlapped, dropped,
                   maxBatchSize, closes, closer, tickerC, ctxDone>>

\* ------------------------------------------------------------- shutdown
\* The intake channel is closed by whoever shuts the use case down, after
\* the producers have stopped (no code of the repository does it).
CloseChannel ==
    /\ ~Returning
    /\ closes = 0
    /\ \A p \in Procs : call[p].pc = "idle"
    /\ closes' = 1
    /\ UNCHANGED <<timerArmed, failed, closerErr, entity, cached,
                   now, auctions, bids, allowSelfOutbid, maxBatchSize, call,
                   pendingHighestBid, bidChannel, bidBatch, batchIsNil,
                   worker, auctionStatusMap, auctionEndTimeMap, closer,
                   tickerC, ctxDone, bidsLeft, sent, overlapped, dropped>>

\* triggerCreateRoutine, lines 93-103: the receive reports the channel closed
\* and drained (ok = false); a non-empty batch is written, then the worker
\* returns.
ObserveClosed ==
    /\ ~Returning
    /\ worker.pc = "select"
    /\ closes > 0
    /\ Len(bidChannel) = 0
    /\ worker' = IF Len(bidBatch) > 0
                 THEN [pc |-> "lastFlush", left |-> 1..Len(bidBatch)]
                 ELSE [pc |-> "return", left |-> {}]
    /\ UNCHANGED <<timerArmed, failed, closerErr, entity, cached,
                   now, auctions, bids, allowSelfOutbid, maxBatchSize, call,
                   pendingHighestBid, bidChannel, bidBatch, batchIsNil,
                   closes, auctionStatusMap, auctionEndTimeMap, closer,
                   tickerC, ctxDone, bidsLeft, sent, overlapped, dropped>>

\* triggerCreateRoutine, lines 97-102: the last store write has returned.
LastFlushEnd ==
    /\ ~Returning
    /\ worker.pc = "lastFlush"
    /\ worker.left = {}
    /\ worker' = [pc |-> "return", left |-> {}]
    /\ UNCHANGED <<timerArmed, failed, closerErr, entity, cached,
                   now, auctions, bids, allowSelfOutbid, maxBatchSize, call,
                   pendingHighestBid, bidChannel, bidBatch, batchIsNil,
                   closes, auctionStatusMap, auctionEndTimeMap, closer,
                   tickerC, ctxDone, bidsLeft, sent, overlapped, dropped>>

\* triggerCreateRoutine, line 89: on return the deferred close(bidChannel)
\* runs; closing a closed channel panics.
DeferredClose ==
    /\ ~Returning
    /\ worker.pc = "return"
    /\ closes' = closes + 1
    /\ worker' = [pc |-> IF closes > 0 THEN "panicked" ELSE "exited",
                  left |-> {}]
    /\ UNCHANGED <<timerArmed, failed, closerErr, entity, cached,
                   now, auctions, bids, allowSelfOutbid, maxBatchSize, call,
                   pendingHighestBid, bidChannel, bidBatch, batchIsNil,
                   auctionStatusMap, auctionEndTimeMap, closer, tickerC,
                   ctxDone, bidsLeft, sent, overlapped, dropped>>

\* ---------------------------------------------------------- specification
Init ==
    /\ now = 0
    /\ auctions = [a \in AuctionIds |-> NoAuction]
    /\ bids = <<>>
    /\ allowSelfOutbid \in BOOLEAN
    /\ maxBatchSize = MaxBatchSize
    /\ call = [p \in Procs |-> IdleCall]
    /\ pendingHighestBid = [a \in AuctionIds |-> NoBid]
    /\ bidChannel = <<>>
    /\ bidBatch = <<>>
    /\ batchIsNil = FALSE
    /\ closes = 0
    /\ worker = WorkerSelect
    /\ closer = "Running"
    /\ tickerC = FALSE
    /\ ctxDone = FALSE
    /\ auctionStatusMap = [a \in AuctionIds |-> NoEntry]
    /\ auctionEndTimeMap = [a \in AuctionIds |-> 0]
    /\ bidsLeft = MaxBids
    /\ sent = <<>>
    /\ overlapped = [a \in AuctionIds |-> FALSE]
    /\ dropped = <<>>
    /\ cached = EmptyBag
    /\ entity = NoCall
    /\ failed = <<>>
    /\ closerErr = FALSE
    /\ timerArmed = TRUE

Next ==
    \/ Tick
    \/ CreateAuction
    \/ closeExpiredAuctions
    \/ \E p \in Procs : Begin(p)
    \/ \E p \in Procs : GetPending(p)
    \/ \E p \in Procs : UpdatePending(p)
    \/ \E p \in Procs : Send(p)
    \/ \E p \in Procs : Return(p)
    \/ Receive
    \/ TimerFire
    \/ \E i \in 1..MaxBatchSize : FlushBid(i)
    \/ FlushEnd

Spec == Init /\ [][Next]_vars

\* The bid pipeline alone, up to its shutdown: the auctions exist, the clock
\* and the closer stand still, and more bids are made.
InitPipe ==
    /\ now = 0
    /\ auctions = [a \in AuctionIds |-> NewAuction(0)]
    /\ bids = <<>>
    /\ allowSelfOutbid \in BOOLEAN
    /\ maxBatchSize \in 1..MaxBatchSize
    /\ call = [p \in Procs |-> IdleCall]
    /\ pendingHighestBid = [a \in AuctionIds |-> NoBid]
    /\ bidChannel = <<>>
    /\ bidBatch = <<>>
    /\ batchIsNil = FALSE
    /\ closes = 0
    /\ worker = WorkerSelect
    /\ auctionStatusMap = [a \in AuctionIds |-> NoEntry]
    /\ auctionEndTimeMap = [a \in AuctionIds |-> 0]
    /\ closer = "Running"
    /\ tickerC = FALSE
    /\ ctxDone = FALSE
    /\ bidsLeft = MaxPipeBids
    /\ sent = <<>>
    /\ overlapped = [a \in AuctionIds |-> FALSE]
    /\ dropped = <<>>
    /\ cached = EmptyBag
    /\ entity = NoCall
    /\ failed = <<>>
    /\ closerErr = FALSE
    /\ timerArmed = TRUE

NextPipe ==
    \/ \E p \in Procs : Begin(p)
    \/ \E p \in Procs : GetPending(p)
    \/ \E p \in Procs : UpdatePending(p)
    \/ \E p \in Procs : Send(p)
    \/ \E p \in Procs : Return(p)
    \/ Receive
    \/ TimerFire
    \/ \E i \in 1..MaxBatchSize : FlushBid(i)
    \/ FlushEnd
    \/ CloseChannel
    \/ ObserveClosed
    \/ LastFlushEnd
    \/ DeferredClose

PipeSpec == InitPipe /\ [][NextPipe]_vars

\* The auction closer started with a context that may be cancelled; the
\* ticker keeps firing and a worker that can take a tick takes one.
NextCloser ==
    \/ Tick
    \/ CreateAuction
    \/ TickerFire
    \/ CloserTick
    \/ CloserStop
    \/ CancelCtx

CloserSpec ==
    Init /\ [][NextCloser]_vars /\ WF_vars(TickerFire) /\ WF_vars(CloserTick)

\* The auction closer with a store whose bulk update may fail; the store
\* does not fail for ever, so a tick that can be swept again and again is
\* swept.
NextCloserFail ==
    \/ Tick
    \/ CreateAuction
    \/ TickerFire
    \/ CloserTick
    \/ CloserTickFails
    \/ CloserStop
    \/ CancelCtx

CloserFailSpec ==
    Init /\ [][NextCloserFail]_vars /\ WF_vars(TickerFire) /\ SF_vars(CloserTick)

\* The bid pipeline with a store that may fail: the auctions exist, the
\* clock stands still at an instant before or after their deadline, and n
\* more bids are made.
InitBids(n) ==
    /\ now \in {0, MaxTime}
    /\ auctions = [a \in AuctionIds |-> NewAuction(0)]
    /\ bids = <<>>
    /\ allowSelfOutbid \in BOOLEAN
    /\ maxBatchSize \in 1..MaxBatchSize
    /\ call = [p \in Procs |-> IdleCall]
    /\ pendingHighestBid = [a \in AuctionIds |-> NoBid]
    /\ bidChannel = <<>>
    /\ bidBatch = <<>>
    /\ batchIsNil = FALSE
    /\ closes = 0
    /\ worker = WorkerSelect
    /\ auctionStatusMap = [a \in AuctionIds |-> NoEntry]
    /\ auctionEndTimeMap = [a \in AuctionIds |-> 0]
    /\ closer = "Running"
    /\ tickerC = FALSE
    /\ ctxDone = FALSE
    /\ bidsLeft = n
    /\ sent = <<>>
    /\ overlapped = [a \in AuctionIds |-> FALSE]
    /\ dropped = <<>>
    /\ cached = EmptyBag
    /\ entity = NoCall
    /\ failed = <<>>
    /\ closerErr = FALSE
    /\ timerArmed = TRUE

InitFail == InitBids(MaxPipeBids)

NextFail ==
    \/ \E p \in Procs : Begin(p)
    \/ \E p \in Procs : GetPending(p)
    \/ \E p \in Procs : UpdatePending(p)
    \/ \E p \in Procs : Send(p)
    \/ \E p \in Procs : Return(p)
    \/ Receive
    \/ TimerFire
    \/ \E i \in 1..MaxBatchSize : FlushBid(i)
    \/ \E i \in 1..MaxBatchSize : FlushBidFails(i)
    \/ FlushEnd

FailSpec == InitFail /\ [][NextFail]_vars

\* The bid pipeline under fair scheduling: every caller and the worker keep
\* taking their steps, every store call returns (with or without an error)
\* and the timer fires when its interval has passed.  The application's
\* context may be cancelled.  The calls taken are those that pass the
\* checks of their first step (the others return in that very step and
\* touch nothing).
BeginAdmitted(p) == Begin(p) /\ call'[p].pc = "getPending"

NextLive ==
    \/ \E p \in Procs : BeginAdmitted(p)
    \/ \E p \in Procs : GetPending(p)
    \/ \E p \in Procs : UpdatePending(p)
    \/ \E p \in Procs : Send(p)
    \/ \E p \in Procs : Return(p)
    \/ Receive
    \/ TimerFire
    \/ \E i \in 1..MaxBatchSize : FlushBid(i)
    \/ \E i \in 1..MaxBatchSize : FlushBidFails(i)
    \/ FlushEnd
    \/ CancelCtx

InitLive == InitBids(MaxBids)

LiveSpec ==
    /\ InitLive
    /\ [][NextLive]_vars
    /\ \A p \in Procs :
          /\ WF_vars(GetPending(p))
          /\ WF_vars(UpdatePending(p))
          /\ WF_vars(Send(p))
          /\ WF_vars(Return(p))
    /\ WF_vars(Receive)
    /\ WF_vars(TimerFire)
    /\ WF_vars(\E i \in 1..MaxBatchSize : FlushBid(i) \/ FlushBidFails(i))
    /\ WF_vars(FlushEnd)

\* The auction entity alone: auctions are built and asked whether they have
\* expired while the clock runs.
NextEntity ==
    \/ Tick
    \/ EntityCreate
    \/ EntityIsExpired

EntitySpec == Init /\ [][NextEntity]_vars

\* ================================================================ claims
BidsOfAuction(s, a) == SelectSeq(s, LAMBDA b : b.auction = a)

StrictlyIncreasing(s) == \A i \in 1..Len(s) - 1 : s[i].amount < s[i + 1].amount

NoSameUserInARow(s) == \A i \in 1..Len(s) - 1 : s[i].user # s[i + 1].user

\* the greater amount of two bids, and a user holding it
MaxAmountOf(x, y) == IF x.amount >= y.amount THEN x.amount ELSE y.amount

C2_LateBidRejected ==
    \A p \in Procs : (call[p].pc = "done" /\ call[p].late) => call[p].ret # Ok

\* C3: while no two calls on an auction have overlapped, the amounts sent on
\* the intake channel for it are strictly increasing.
C3_SequentialIncreasing ==
    \A a \in AuctionIds :
        ~overlapped[a] => StrictlyIncreasing(BidsOfAuction(sent, a))

\* C3 witness: two bids of one auction were sent by calls that did not overlap.
C3_Witness ==
    \E a \in AuctionIds : ~overlapped[a] /\ Len(BidsOfAuction(sent, a)) >= 2

\* C4 (as claimed): under every interleaving the amounts sent on the intake
\* channel for an auction are strictly increasing.
C4_ConcurrentIncreasing ==
    \A a \in AuctionIds : StrictlyIncreasing(BidsOfAuction(sent, a))

\* C5 (as claimed): for every bid whose CreateBid returned success, the
\* pending-highest cache holds for its auction an amount at least as great.
C5_PendingCoversAccepted ==
    \A i \in 1..Len(sent) :
        pendingHighestBid[sent[i].auction].amount >= sent[i].amount

\* C6 (as claimed): with ALLOW_SELF_OUTBID false no two bids consecutive on
\* the intake channel for one auction have the same user.
C6_NoSelfOutbidInARow ==
    ~allowSelfOutbid =>
        \A a \in AuctionIds : NoSameUserInARow(BidsOfAuction(sent, a))

\* C7: the winner lookup returns a persisted bid of the auction of greatest
\* amount, and no bid when the auction has none.
C7_WinnerIsMax ==
    \A a \in AuctionIds :
        LET own == {bids[i] : i \in IdxOf(bids, a)}
            w == FindWinningBidByAuctionId(a)
        IN IF own = {} THEN w = NoBid
           ELSE w \in own /\ \A b \in own : b.amount <= w.amount

\* C7 witness: an auction has persisted bids of different amounts.
C7_Witness ==
    \E i, j \in 1..Len(bids) :
        bids[i].auction = bids[j].auction /\ bids[i].amount < bids[j].amount

\* C8: a call with a well-formed bid ends with NotFound "Auction not found"
\* when the auction is not in the store and with BadRequest "Auction is no
\* longer active" when it is Completed; nothing is admitted.
C8_AuctionErrors ==
    [][\A p \in Procs :
          (call[p].pc = "idle" /\ call'[p].pc # "idle" /\ call'[p].amount > 0) =>
             LET doc == auctions[call'[p].auction] IN
             /\ doc = NoAuction =>
                   call'[p].pc = "done" /\ call'[p].ret = ErrAuctionNotFound
             /\ (doc # NoAuction /\ doc.status = Completed) =>
                   call'[p].pc = "done" /\ call'[p].ret = ErrAuctionInactive
             /\ (doc = NoAuction \/ doc.status = Completed) =>
                   /\ pendingHighestBid' = pendingHighestBid
                   /\ bidChannel' = bidChannel]_vars

\* C8 witness: a known user's well-formed bid on a Completed auction was
\* answered "Auction is no longer active".
C8_Witness ==
    \E p \in Procs :
        /\ call[p].pc = "done"
        /\ call[p].ret = ErrAuctionInactive
        /\ call[p].user \in Users
        /\ call[p].amount > 0

\* C9: when a highest bid exists and the self-outbid rule does not reject,
\* an amount not above the highest one is answered "Bid must be higher than
\* current highest bid" and only a strictly greater amount goes on.
C9_MustBeHigher ==
    [][\A p \in Procs :
          (call[p].pc = "getPending" /\ call'[p].pc # "getPending") =>
             LET high == MaxAmountOf(call[p].cur, pendingHighestBid[call[p].auction])
             IN (high > 0 /\ call'[p].ret # ErrSelfOutbid) =>
                   /\ call[p].amount <= high =>
                         call'[p].pc = "done" /\ call'[p].ret = ErrNotHigher
                   /\ call[p].amount > high => call'[p].pc = "update"]_vars

\* C9 witness: with ALLOW_SELF_OUTBID true the holder of the highest bid
\* offered the same amount again and was answered "Bid must be higher".
C9_Witness ==
    \E p \in Procs :
        /\ call[p].pc = "done"
        /\ call[p].ret = ErrNotHigher
        /\ allowSelfOutbid
        /\ call[p].effUser = call[p].user
        /\ call[p].amount = call[p].effAmount

\* the user of the effective highest bid: the pending one when strictly
\* greater, else the persisted one
HolderOf(cur, pend) == IF pend.amount > cur.amount THEN pend.user ELSE cur.user

C11_FetchFailureIsInternal ==
    \A p \in Procs :
        call[p].findErr =>
            /\ call[p].pc \notin {"update", "send"}
            /\ call[p].pc = "done" => call[p].ret.kind = "Internal"

\* C12: a call that is answered with an error is answered before its first
\* write, and none of its steps changes the pending-highest cache, the
\* intake channel or the batch buffer.
C12_ErrorLeavesNoTrace ==
    [][\A p \in Procs :
          /\ (call[p].pc # "done" /\ call'[p].pc = "done" /\ call'[p].ret # Ok) =>
                /\ call[p].pc \in {"idle", "getPending"}
                /\ UNCHANGED <<pendingHighestBid, bidChannel, bidBatch>>
          /\ (call[p].pc = "idle" /\ call'[p].pc = "getPending") =>
                UNCHANGED <<pendingHighestBid, bidChannel, bidBatch>>]_vars

\* C12 witness: a call was rejected by validation 6 while the cache held a
\* bid of its auction and the pipeline held bids.
C12_Witness ==
    \E p \in Procs :
        /\ call[p].pc = "done"
        /\ call[p].ret \in {ErrSelfOutbid, ErrNotHigher}
        /\ pendingHighestBid[call[p].auction] # NoBid
        /\ Len(bidChannel) + Len(bidBatch) > 0

\* C13: whatever the trigger (timer, size, channel close), the worker is in
\* a store write only with a non-empty batch, and the write covers bids of
\* that batch only; a timer that finds the batch empty leaves the worker at
\* its select with a nil batch.
C13_NoEmptyWrite ==
    /\ worker.pc \in {"flush", "lastFlush"} =>
          Len(bidBatch) > 0 /\ worker.left \subseteq 1..Len(bidBatch)
    /\ batchIsNil => bidBatch = <<>> /\ worker.pc # "flush"

\* C13 witness: the timer has fired on an empty batch (the batch is nil)
\* and nothing has been handed to the store, with a bid waiting in the
\* channel.
C13_Witness ==
    /\ batchIsNil
    /\ worker.pc = "select"
    /\ Len(bids) + Len(dropped) = 0
    /\ Len(bidChannel) > 0

\* C14: a received bid is appended in channel order; the receive that makes
\* the batch reach maxBatchSize, and only that one, starts a store write of
\* exactly these maxBatchSize bids; the batch is emptied when the write has
\* covered them all; the store is written only during a write of the batch
\* and nothing is received meanwhile.
C14_SizeTrigger ==
    [][/\ Len(bidBatch') = Len(bidBatch) + 1 =>
             /\ worker.pc = "select"
             /\ bidBatch' = Append(bidBatch, Head(bidChannel))
             /\ bidChannel' = Tail(bidChannel)
             /\ IF Len(bidBatch') >= maxBatchSize
                THEN /\ worker'.pc = "flush"
                     /\ worker'.left = 1..maxBatchSize
                     /\ Len(bidBatch') = maxBatchSize
                ELSE worker'.pc = "select"
             /\ bids' = bids /\ dropped' = dropped
       /\ (worker.pc = "flush" /\ worker'.pc = "select") =>
             worker.left = {} /\ bidBatch' = <<>>
       /\ (bids' # bids \/ dropped' # dropped) =>
             /\ worker.pc \in {"flush", "lastFlush"}
             /\ bidBatch' = bidBatch
             /\ Len(bids') + Len(dropped') = Len(bids) + Len(dropped) + 1]_vars

\* C14 witness: a write triggered by size is under way for a batch of two or
\* more bids while a later bid waits in the channel.
C14_Witness ==
    /\ worker.pc = "flush"
    /\ maxBatchSize >= 2
    /\ Len(bidBatch) = maxBatchSize
    /\ Len(bidChannel) > 0

\* C15: the intake channel never holds more than maxBatchSize bids (a sender
\* that finds it full waits).
C15_ChannelBounded == Len(bidChannel) <= maxBatchSize

\* C15 witness: the worker is in a store write, the channel is full and a
\* caller that has passed admission stands at the send.
C15_Witness ==
    /\ worker.pc = "flush"
    /\ Len(bidChannel) = maxBatchSize
    /\ \E p \in Procs : call[p].pc = "send"

\* C16: a step that changes a stored auction sets to Completed exactly the
\* auctions that are Active with expires_at <= now (epoch seconds), changes
\* nothing else of any auction, and leaves the bids, the deadline cache and
\* the pending-highest cache as they were.
C16_SweepFrame ==
    [][(\E a \in AuctionIds : auctions[a] # NoAuction /\ auctions'[a] # auctions[a]) =>
          /\ \A a \in AuctionIds :
                auctions'[a] =
                   IF /\ auctions[a] # NoAuction
                      /\ auctions[a].status = Active
                      /\ auctions[a].expires_at <= now \div TicksPerSec
                   THEN [auctions[a] EXCEPT !.status = Completed]
                   ELSE auctions[a]
          /\ UNCHANGED <<bids, auctionStatusMap, auctionEndTimeMap,
                         pendingHighestBid>>]_vars

\* C16 witness: an auction with a persisted bid, a deadline-cache entry and a
\* pending-highest entry has been swept to Completed; the cache still says
\* Active.
C16_Witness ==
    \E a \in AuctionIds :
        /\ auctions[a] # NoAuction
        /\ auctions[a].status = Completed
        /\ IdxOf(bids, a) # {}
        /\ auctionStatusMap[a] = Active
        /\ pendingHighestBid[a] # NoBid

\* C17: an auction enters the store Active, stays in the store, and its
\* status never goes from Completed back to Active.
C17_StatusMonotonic ==
    [][\A a \in AuctionIds :
          /\ (auctions[a] = NoAuction /\ auctions'[a] # NoAuction) =>
                auctions'[a].status = Active
          /\ auctions[a] # NoAuction =>
                /\ auctions'[a] # NoAuction
                /\ auctions'[a].status \in {Active, Completed}
                /\ auctions[a].status = Completed =>
                      auctions'[a].status = Completed]_vars

\* C17 witness: an auction is Completed while a call on it, begun when it
\* was Active, is still under way.
C17_Witness ==
    \E p \in Procs :
        /\ InProgress(p)
        /\ auctions[call[p].auction].status = Completed

\* an Active auction whose stored deadline has been reached
Due(a) ==
    /\ auctions[a] # NoAuction
    /\ auctions[a].status = Active
    /\ auctions[a].expires_at <= Unix(now)

\* C18: while the context is not cancelled, the first tick the closer takes
\* after the deadline of an Active auction sets it to Completed, and such a
\* tick comes: a due auction is eventually Completed.
C18_ClosedByNextTick ==
    /\ [][(tickerC /\ ~tickerC' /\ ~ctxDone) =>
             \A a \in AuctionIds : Due(a) => auctions'[a].status = Completed]_vars
    /\ \A a \in AuctionIds :
          Due(a) ~> (auctions[a].status = Completed \/ ctxDone)

\* C18 witness: with the closer running and its context live, an auction
\* has been closed and no tick is waiting.
C18_Witness ==
    /\ closer = "Running"
    /\ ~ctxDone
    /\ ~tickerC
    /\ \E a \in AuctionIds :
          auctions[a] # NoAuction /\ auctions[a].status = Completed

\* C19 (as claimed): once the context is cancelled the closer takes no tick
\* any more, and Stopped is final.
C19_NoTickAfterCancel ==
    [][/\ ctxDone => ~(tickerC /\ ~tickerC')
       /\ closer = "Stopped" => closer' = "Stopped"]_vars

\* C20 (as claimed): the intake channel is closed at most once and the
\* worker, having seen it closed, ends normally.
C20_ClosedOnce == closes <= 1 /\ worker.pc # "panicked"

\* s can be had from t by leaving bids out
RECURSIVE IsSubSeq(_, _)
IsSubSeq(s, t) ==
    IF s = <<>> THEN TRUE
    ELSE IF t = <<>> THEN FALSE
    ELSE IF Head(s) = Head(t) THEN IsSubSeq(Tail(s), Tail(t))
    ELSE IsSubSeq(s, Tail(t))

\* C21 (as claimed): the bids of one auction enter the store in the order in
\* which they were sent on the intake channel, across batches and within a
\* batch.
C21_StoreInAdmissionOrder ==
    \A a \in AuctionIds :
        IsSubSeq(BidsOfAuction(bids, a), BidsOfAuction(sent, a))

\* the clock has reached the stored deadline of auction a
DeadlineReached(a) ==
    auctions[a] # NoAuction /\ now >= FromUnix(auctions[a].expires_at)

\* C22 (as claimed): from the instant now = expires_at on, no step adds a
\* bid of the auction to the persisted bids.
C22_NoPersistFromDeadlineOn ==
    [][\A a \in AuctionIds :
          DeadlineReached(a) =>
             BidsOfAuction(bids', a) = BidsOfAuction(bids, a)]_vars

C24_CreatedAuction ==
    (entity.pc # "none" /\ entity.err = Ok) =>
        /\ entity.auction.Status = "Active"
        /\ entity.auction.Id # ""
        /\ entity.auction.ExpiresAt =
              entity.auction.CreatedAt +
                 (IF entity.env.set /\ entity.env.parses THEN entity.env.d
                  ELSE 300 * TicksPerSec)

\* C24 witness: an auction was created, after the clock had moved, with
\* AUCTION_INTERVAL set to a text that is no duration.
C24_Witness ==
    /\ entity.pc = "created" /\ entity.err = Ok
    /\ entity.env.set /\ ~entity.env.parses
    /\ entity.auction.CreatedAt > 0

\* C25: IsExpired answers true exactly when the clock is after ExpiresAt:
\* false up to and including ExpiresAt, so false at the instant of creation
\* when the interval is positive, and true at every later instant.
C25_IsExpiredStrict ==
    entity.pc = "checked" =>
        /\ entity.expired <=> entity.at > entity.auction.ExpiresAt
        /\ (/\ entity.at = entity.auction.CreatedAt
            /\ entity.auction.ExpiresAt > entity.auction.CreatedAt) =>
               ~entity.expired

\* C25 witness: an auction of positive interval was asked at the very
\* instant ExpiresAt and answered that it has not expired.
C25_Witness ==
    /\ entity.pc = "checked"
    /\ entity.at = entity.auction.ExpiresAt
    /\ entity.auction.ExpiresAt > entity.auction.CreatedAt
    /\ ~entity.expired

\* C26 (as claimed): CreateAuction answers BadRequest "invalid auction
\* object" and no auction as soon as one of the four fields is invalid, and
\* succeeds when all four are valid.
C26_AnyInvalidFieldRejected ==
    entity.pc # "none" =>
        IF \/ entity.nameLen <= 1
           \/ entity.catLen <= 2
           \/ entity.descLen <= 10
           \/ entity.cond \notin {1, 2, 3}
        THEN entity.err = ErrInvalidAuction /\ entity.auction = NilAuction
        ELSE entity.err = Ok /\ entity.auction # NilAuction

\* how many times bid b occurs in the sequence s
Count(b, s) == Cardinality({i \in 1..Len(s) : s[i] = b})

\* the bids of the batch the store write has not handled yet (the last
\* write, on a closed channel, leaves the written bids in the batch)
Unwritten ==
    IF worker.pc = "select" THEN 1..Len(bidBatch)
    ELSE {i \in 1..Len(bidBatch) : i \in worker.left}

AllBids == [user : Users \cup {"ghost"}, auction : AuctionIds, amount : 0..MaxAmount]

C29_EffectiveHighest ==
    [][\A p \in Procs :
          (call[p].pc = "getPending" /\ call'[p].pc # "getPending") =>
             LET c == call[p]
                 pend == pendingHighestBid[c.auction]
                 eff == IF pend.amount > c.cur.amount THEN pend ELSE c.cur
                 admitted == \/ eff.amount = 0
                             \/ /\ c.amount > eff.amount
                                /\ (eff.user # c.user \/ allowSelfOutbid)
             IN /\ call'[p].pc = IF admitted THEN "update" ELSE "done"
                /\ ~admitted =>
                      /\ call'[p].effAmount = eff.amount
                      /\ call'[p].effUser = eff.user
                /\ (c.cur = NoBid /\ pend = NoBid) =>
                      call'[p].pc = "update" /\ call'[p].ret = Ok]_vars

\* C29 witness: the persisted and the pending highest bid have the same
\* amount and different users, and the persisted one's user, bidding
\* higher, was answered "You are already the highest bidder".
C29_Witness ==
    \E p \in Procs :
        /\ call[p].pc = "done"
        /\ call[p].ret = ErrSelfOutbid
        /\ call[p].amount > call[p].effAmount
        /\ FindWinningBidByAuctionId(call[p].auction).user = call[p].user
        /\ pendingHighestBid[call[p].auction].amount = call[p].effAmount
        /\ pendingHighestBid[call[p].auction].user # call[p].user

C32_FlushFailureSwallowed ==
    [][/\ failed' # failed =>
             /\ \E i \in worker.left : failed' = Append(failed, bidBatch[i])
             /\ UNCHANGED <<call, bidChannel, bidBatch, bids, pendingHighestBid>>
             /\ worker'.pc = worker.pc
       /\ (worker.pc = "flush" /\ worker'.pc # "flush") =>
             /\ worker'.pc = "select"
             /\ bidBatch' = <<>>
             /\ timerArmed'
             /\ UNCHANGED <<call, bidChannel, failed>>
       /\ \A b \in AllBids :
             Count(b, failed') + Count(b, bids') + Count(b, dropped')
                <= Count(b, sent')]_vars

\* C32 witness: the first bid sent was lost to a store failure, a bid sent
\* after it has been persisted, and the worker is back at its select with
\* the timer running.
C32_Witness ==
    /\ Len(sent) = 2 /\ sent[1] # sent[2]
    /\ failed = <<sent[1]>>
    /\ bids = <<sent[2]>>
    /\ worker.pc = "select" /\ timerArmed

\* C33: a bid the worker has received is eventually handed to the store:
\* while bids wait in the batch at the select the timer is running, and a
\* waiting batch is eventually written, by size or by the timer.
C33_BatchEventuallyWritten ==
    /\ [](worker.pc = "select" /\ Len(bidBatch) > 0 => timerArmed)
    /\ (worker.pc = "select" /\ Len(bidBatch) > 0) ~> (worker.pc = "flush")

\* C33 witness: the timer has started the write of a batch that holds fewer
\* than maxBatchSize bids while no further bid is on its way.
C33_Witness ==
    /\ worker.pc = "flush"
    /\ ~timerArmed
    /\ Len(bidBatch) < maxBatchSize
    /\ Len(bidChannel) = 0
    /\ \A p \in Procs : call[p].pc = "idle"

\* C34 (as claimed): once the context is cancelled the worker drains the
\* channel, writes what it holds and terminates.
C34_CancelStopsWorker ==
    ctxDone ~> (/\ worker.pc = "exited"
                /\ Len(bidChannel) = 0
                /\ Unwritten = {})

\* C35: a sweep whose store update fails changes no auction and leaves the
\* closer Running; a sweep that succeeds, also after a failed one, sets every
\* overdue Active auction to Completed, and such a sweep comes.
C35_FailedSweepContinues ==
    /\ [][/\ (tickerC /\ ~tickerC' /\ closerErr') =>
                (auctions' = auctions /\ closer' = "Running")
          /\ (tickerC /\ ~tickerC' /\ ~closerErr') =>
                (\A a \in AuctionIds :
                    Due(a) => (auctions'[a].status = Completed))]_vars
    /\ [](closerErr /\ ~ctxDone => closer = "Running")
    /\ \A a \in AuctionIds :
          (closerErr /\ Due(a)) ~> (auctions[a].status = Completed \/ ctxDone)

\* C35 witness: a sweep has failed on a live context and left an overdue
\* auction Active; the closer is Running and its next tick is waiting.
C35_Witness ==
    /\ closerErr
    /\ ~ctxDone
    /\ closer = "Running"
    /\ tickerC
    /\ \E a \in AuctionIds : Due(a)

\* C36 (as claimed): an auction is Completed only when the instant
\* CreatedAt + interval of its entity has been reached.
C36_NotClosedBeforeExpiresAt ==
    \A a \in AuctionIds :
        (auctions[a] # NoAuction /\ auctions[a].status = Completed) =>
            now >= auctions[a].ExpiresAt

\* C37: the worker never writes the pending cache, whatever became of the
\* bids it wrote, and an entry is never removed; so a call whose amount is
\* not above the pending amount of its auction is rejected at validation 6,
\* whether or not that pending bid has reached the store.
C37_PendingOutlivesFlush ==
    [][/\ pendingHighestBid' # pendingHighestBid =>
             UNCHANGED <<worker, bidBatch, bids, failed, dropped>>
       /\ \A a \in AuctionIds :
             pendingHighestBid[a] # NoBid => pendingHighestBid'[a] # NoBid
       /\ \A p \in Procs :
             (/\ call[p].pc = "getPending"
              /\ call'[p].pc # "getPending"
              /\ pendingHighestBid[call[p].auction] # NoBid
              /\ call[p].amount <= pendingHighestBid[call[p].auction].amount) =>
                 (/\ call'[p].pc = "done"
                  /\ call'[p].ret \in {ErrNotHigher, ErrSelfOutbid})]_vars

\* C37 witness: the pending bid of one auction was lost to a store failure
\* and that of the other was refused at write time; neither auction has a
\* persisted bid, the worker is back at its select, and a call that offered
\* no more than the lost bid has been rejected as not higher.
C37_Witness ==
    /\ worker.pc = "select" /\ bidBatch = <<>> /\ bidChannel = <<>>
    /\ bids = <<>>
    /\ \E a1, a2 \in AuctionIds :
          /\ a1 # a2
          /\ \E i \in 1..Len(failed) : failed[i] = pendingHighestBid[a1]
          /\ \E i \in 1..Len(dropped) : dropped[i] = pendingHighestBid[a2]
          /\ \E p \in Procs :
                /\ call[p].pc = "done"
                /\ call[p].auction = a1
                /\ call[p].ret = ErrNotHigher
                /\ call[p].amount <= pendingHighestBid[a1].amount

\* copies of bid b waiting in the batch buffer for a write to come
Waiting(b) == IF worker.pc = "select" THEN Count(b, bidBatch) ELSE 0

\* copies of bid b handed to a store write: those the write under way has
\* still to decide and those persisted, refused or lost
Handed(b) ==
    (IF worker.pc = "select" THEN 0
     ELSE Cardinality({i \in worker.left : bidBatch[i] = b}))
    + Count(b, bids) + Count(b, dropped) + Count(b, failed)

\* C38: every copy of a bid sent on the channel is in exactly one place: in
\* the channel, waiting in the batch buffer, or handed to one store write;
\* none is lost on its way and none is handed twice.
C38_OnePlace ==
    \A b \in AllBids :
        Count(b, sent) = Count(b, bidChannel) + Waiting(b) + Handed(b)

\* C38 witness: of three bids sent one has been written by an earlier
\* flush, one waits in the batch buffer and one is in the channel.
C38_Witness ==
    /\ Len(sent) = 3
    /\ worker.pc = "select"
    /\ Len(bids) = 1 /\ Len(bidBatch) = 1 /\ Len(bidChannel) = 1

\* C40: with maxBatchSize >= 1, at the select (outside its critical section)
\* the worker's batch holds fewer than maxBatchSize bids, and a batch passed
\* to the store holds at least one and at most maxBatchSize bids.
C40_BatchSize ==
    maxBatchSize >= 1 =>
        /\ worker.pc = "select" => Len(bidBatch) < maxBatchSize
        /\ worker.pc \in {"flush", "lastFlush"} =>
              (1 <= Len(bidBatch) /\ Len(bidBatch) <= maxBatchSize)

\* C40 witness: the timer has passed a batch of fewer than maxBatchSize bids
\* to the store while another bid waits in the channel.
C40_Witness ==
    /\ worker.pc = "flush"
    /\ 1 <= Len(bidBatch) /\ Len(bidBatch) < maxBatchSize
    /\ Len(bidChannel) > 0
    /\ worker.left = 1..Len(bidBatch)

\* C39: under fair scheduling, with store writes that return, every call of
\* CreateBid that has passed its reads returns, a sender waiting on a full
\* channel included.
C39_CallsReturn ==
    \A p \in Procs :
        /\ InProgress(p) ~> (call[p].pc = "done")
        /\ (call[p].pc = "send" /\ ~ChannelHasRoom) ~> ChannelHasRoom

\* C39 witness: a sender waits on a full channel, the other call has
\* returned and the worker is at its select.
C39_Witness ==
    \E p \in Procs :
        /\ call[p].pc = "send"
        /\ ~ChannelHasRoom
        /\ \A q \in Procs \ {p} : call[q].pc = "idle"
        /\ worker.pc = "select"

====
